---- MODULE Spec2Model ----
(***************************************************************************)
(* Conway's Game of Life on a toroidal grid: the engine of                 *)
(* src/src/game_of_life.rs (struct Universe: new, update,                  *)
(* clear_changed_cells, live_neighbor_count).                              *)
(*                                                                         *)
(* A Vec is a sequence; Rust's 0-based index i is position i + 1.          *)
(* All dimensions are small, so no u32 product or sum overflows.           *)
(***************************************************************************)
EXTENDS Integers, Sequences, FiniteSets

\* ---------------------------------------------------------------- bounds

\* new(width, height) is called with width, height in 0..MaxDim.
MaxDim == 4

\* A test fixture is a grid of MinGrid..MaxGrid columns and rows.
MinGrid == 4
MaxGrid == 5

\* At most MaxUnread calls of update between two clears of the record.
MaxUnread == 2
\* sizes of a TimingBuffer built on its own
MaxSize == 5
\* frame times handed to add_time: 1..MaxSample
MaxSample == 3
\* calls of render in a run of the windowed program
MaxRenders == 2
\* GRID_SIZE of the windowed program: 1..MaxGridSize
MaxGridSize == 5

\* ------------------------------------------------------------------ Cell

Dead == 0
Alive == 1

\* ------------------------------------------------------- Universe fields

VARIABLES
    width,          \* Universe.width
    height,         \* Universe.height
    cells,          \* Universe.cells, row-major
    changed_cells,  \* Universe.changed_cells: <<column, row, cell>> entries
    panicked,       \* an index was out of range: the thread panicked
    lastOp,         \* the call that produced this state
    prevCells,      \* cells before that call
    prevChanged,    \* changed_cells before that call
    unread,         \* calls of update since the record was last emptied
    app,            \* main.rs: `app`, the Universe of the windowed program
    fps,            \* a TimingBuffer (in main.rs, the field Universe.fps)
    renders         \* main.rs: calls of render so far

vars == <<width, height, cells, changed_cells, panicked, lastOp, prevCells,
          prevChanged, unread, app, fps, renders>>

\* The variables of main.rs and of timing_buffer.rs.
mainVars == <<app, fps, renders>>

\* No windowed program and no samples: the engine of game_of_life.rs alone.
NoMain ==
    /\ app = [width |-> 0, height |-> 0, cells |-> <<>>,
              changed_cells |-> <<>>, cell_width |-> 0, panicked |-> FALSE]
    /\ fps = [buffer |-> <<>>, size |-> 0]
    /\ renders = 0

\* ---------------------------------------------------------------- helpers

\* cells[idx] is in range (Vec indexing panics otherwise).
InRange(cs, idx) == idx >= 0 /\ idx < Len(cs)

get_index(w, row, column) == row * w + column

\* The arrays [self.height - 1, 0, 1] and [self.width - 1, 0, 1].
Deltas(n) == <<n - 1, 0, 1>>

\* NeighborIndex without the wrap: the `% self.height` and `% self.width`
\* are left out.
NeighborIndexNoWrap(w, h, row, column, k) ==
    LET delta_row == Deltas(h)[(k \div 3) + 1]
        delta_col == Deltas(w)[(k % 3) + 1]
    IN  IF delta_row = 0 /\ delta_col = 0
        THEN -1
        ELSE get_index(w, row + delta_row, column + delta_col)

\* The index live_neighbor_count reads at step k of its two nested loops
\* (k = 3 * i + j for the i-th delta_row and the j-th delta_col), or -1 when
\* the step is skipped by `continue`.
NeighborIndex(w, h, row, column, k) ==
    LET delta_row == Deltas(h)[(k \div 3) + 1]
        delta_col == Deltas(w)[(k % 3) + 1]
        neighbor_row == (row + delta_row) % h
        neighbor_col == (column + delta_col) % w
    IN  IF delta_row = 0 /\ delta_col = 0
        THEN -1
        ELSE get_index(w, neighbor_row, neighbor_col)

\* What step k of the loops adds to count: self.cells[idx] as u8.
NeighborTerm(cs, w, h, row, column, k) ==
    LET idx == NeighborIndex(w, h, row, column, k)
    IN  IF idx = -1 THEN 0 ELSE cs[idx + 1]

\* The nine steps of the two loops, in order; count is a u8 and at most 8.
live_neighbor_count(cs, w, h, row, column) ==
    NeighborTerm(cs, w, h, row, column, 0) + NeighborTerm(cs, w, h, row, column, 1)
    + NeighborTerm(cs, w, h, row, column, 2) + NeighborTerm(cs, w, h, row, column, 3)
    + NeighborTerm(cs, w, h, row, column, 4) + NeighborTerm(cs, w, h, row, column, 5)
    + NeighborTerm(cs, w, h, row, column, 6) + NeighborTerm(cs, w, h, row, column, 7)
    + NeighborTerm(cs, w, h, row, column, 8)

\* Every index live_neighbor_count reads is in range.
NeighborsInRange(cs, w, h, row, column) ==
    \A k \in 0..8 :
        LET idx == NeighborIndex(w, h, row, column, k)
        IN  idx = -1 \/ InRange(cs, idx)

\* ------------------------------------------------------------ the rules

\* MatchArm without the arm of rule 1: an underpopulated live cell falls
\* through to `otherwise`.
MatchArmNoRule1(cell, x) ==
    CASE cell = Alive /\ (x = 2 \/ x = 3) -> 2
      [] cell = Alive /\ x > 3 -> 3
      [] cell = Dead /\ x = 3 -> 4
      [] OTHER -> 5

\* MatchArm whose rule 2 arm is `(Cell::Alive, 2)` alone: a live cell with
\* three live neighbours falls through to `otherwise`.
MatchArmRule2At2(cell, x) ==
    CASE cell = Alive /\ x < 2 -> 1
      [] cell = Alive /\ x = 2 -> 2
      [] cell = Alive /\ x > 3 -> 3
      [] cell = Dead /\ x = 3 -> 4
      [] OTHER -> 5

\* The arm of update's match that (cell, live_neighbors) selects: 1..4 are
\* the rules, 5 is `(otherwise, _) => otherwise`.
MatchArm(cell, x) ==
    CASE cell = Alive /\ x < 2 -> 1
      [] cell = Alive /\ (x = 2 \/ x = 3) -> 2
      [] cell = Alive /\ x > 3 -> 3
      [] cell = Dead /\ x = 3 -> 4
      [] OTHER -> 5

\* The value of the match: next_cell.
NextCell(cell, x) ==
    CASE MatchArm(cell, x) = 1 -> Dead
      [] MatchArm(cell, x) = 2 -> Alive
      [] MatchArm(cell, x) = 3 -> Dead
      [] MatchArm(cell, x) = 4 -> Alive
      [] OTHER -> cell

\* Pushes with rule 2 left out: only the cells that change state are pushed.
PushesChangedOnly(cell, x) == MatchArm(cell, x) \in {1, 3, 4}

\* Pushes with rule 3 left out: a cell dying of overpopulation is not pushed.
PushesNoRule3(cell, x) == MatchArm(cell, x) \in {1, 2, 4}

\* Whether the arm pushes an entry on changed_cells.
Pushes(cell, x) == MatchArm(cell, x) \in 1..4

\* ---------------------------------------------------------------- update

\* UpdateBody writing self.cells in place: the cell and its neighbours are
\* read from the generation being written.
UpdateBodyInPlace(cs, w, h, k, st) ==
    LET row == k \div w
        col == k % w
        idx == get_index(w, row, col)
    IN  IF st.panicked \/ ~InRange(st.cells, idx)
           \/ ~NeighborsInRange(st.cells, w, h, row, col)
        THEN [st EXCEPT !.panicked = TRUE]
        ELSE LET cell == st.cells[idx + 1]
                 live_neighbors ==
                     live_neighbor_count(st.cells, w, h, row, col)
                 next_cell == NextCell(cell, live_neighbors)
             IN  [cells |-> [st.cells EXCEPT ![idx + 1] = next_cell],
                  changed_cells |->
                      IF Pushes(cell, live_neighbors)
                      THEN Append(st.changed_cells, <<col, row, next_cell>>)
                      ELSE st.changed_cells,
                  panicked |-> FALSE]

\* UpdateBody pushing (row, col, cell) for (col, row, cell).
UpdateBodyRowFirst(cs, w, h, k, st) ==
    LET row == k \div w
        col == k % w
        idx == get_index(w, row, col)
    IN  IF st.panicked \/ ~InRange(cs, idx)
           \/ ~NeighborsInRange(cs, w, h, row, col)
        THEN [st EXCEPT !.panicked = TRUE]
        ELSE LET cell == cs[idx + 1]
                 live_neighbors == live_neighbor_count(cs, w, h, row, col)
                 next_cell == NextCell(cell, live_neighbors)
             IN  [cells |-> [st.cells EXCEPT ![idx + 1] = next_cell],
                  changed_cells |->
                      IF Pushes(cell, live_neighbors)
                      THEN Append(st.changed_cells, <<row, col, next_cell>>)
                      ELSE st.changed_cells,
                  panicked |-> FALSE]

\* One iteration of update's two nested loops, the k-th in row-major order
\* (row k \div w, column k % w). cs is self.cells, which the loops only read;
\* st holds the clone `next` being written (st.cells) and self.changed_cells.
UpdateBody(cs, w, h, k, st) ==
    LET row == k \div w
        col == k % w
        idx == get_index(w, row, col)
    IN  IF st.panicked \/ ~InRange(cs, idx)
           \/ ~NeighborsInRange(cs, w, h, row, col)
        THEN [st EXCEPT !.panicked = TRUE]
        ELSE LET cell == cs[idx + 1]
                 live_neighbors == live_neighbor_count(cs, w, h, row, col)
                 next_cell == NextCell(cell, live_neighbors)
             IN  [cells |-> [st.cells EXCEPT ![idx + 1] = next_cell],
                  changed_cells |->
                      IF Pushes(cell, live_neighbors)
                      THEN Append(st.changed_cells, <<col, row, next_cell>>)
                      ELSE st.changed_cells,
                  panicked |-> FALSE]

\* The loops of update: loop[k] is the state after k iterations.
UpdateLoop(cs, w, h, changed) ==
    LET loop[k \in 0..(w * h)] ==
            IF k = 0
            THEN [cells |-> cs, changed_cells |-> changed, panicked |-> FALSE]
            ELSE UpdateBody(cs, w, h, k - 1, loop[k - 1])
    IN  loop[w * h]

\* update emptying the record before it pushes.
update_clearing(cs, w, h, changed) ==
    LET r == UpdateLoop(cs, w, h, <<>>)
    IN  IF r.panicked THEN [r EXCEPT !.cells = cs] ELSE r

\* Universe::update: the result replaces self.cells (`self.cells = next`)
\* unless the loops panicked, which leaves self.cells as it was.
update(cs, w, h, changed) ==
    LET r == UpdateLoop(cs, w, h, changed)
    IN  IF r.panicked THEN [r EXCEPT !.cells = cs] ELSE r

\* ---------------------------------------------------- clear_changed_cells

\* clear_changed_cells as `self.changed_cells.pop()`: only the last entry
\* goes.
clear_pop(cs, changed) ==
    [cells |-> cs,
     changed_cells |-> SubSeq(changed, 1, Len(changed) - 1)]

\* clear_changed_cells resetting the grid along with the record.
clear_all(cs, changed) ==
    [cells |-> [p \in 1..Len(cs) |-> Dead], changed_cells |-> <<>>]

\* Universe::clear_changed_cells: self.changed_cells.clear(); self.cells is
\* not touched.
clear_changed_cells(cs, changed) ==
    [cells |-> cs, changed_cells |-> <<>>]

\* ------------------------------------------------------------------- new

\* SeedCell with `&&` for `||`.
SeedCellAnd(i) == IF i % 2 = 0 /\ i % 7 = 0 THEN Alive ELSE Dead

\* The seeding closure of new.
SeedCell(i) == IF i % 2 = 0 \/ i % 7 = 0 THEN Alive ELSE Dead

\* SeedCells over the inclusive range 0..=width * height.
SeedCellsInclusive(w, h) == [p \in 1..(w * h + 1) |-> SeedCell(p - 1)]

\* (0..width * height).map(...).collect()
SeedCells(w, h) == [p \in 1..(w * h) |-> SeedCell(p - 1)]

\* One iteration of the two nested loops of new that fill changed_cells.
SeedBody(cs, w, h, k, st) ==
    LET row == k \div w
        col == k % w
        idx == row * w + col
    IN  IF st.panicked \/ ~InRange(cs, idx)
        THEN [st EXCEPT !.panicked = TRUE]
        ELSE [changed_cells |->
                  IF cs[idx + 1] = Alive
                  THEN Append(st.changed_cells, <<col, row, Alive>>)
                  ELSE st.changed_cells,
              panicked |-> FALSE]

SeedLoop(cs, w, h) ==
    LET loop[k \in 0..(w * h)] ==
            IF k = 0
            THEN [changed_cells |-> <<>>, panicked |-> FALSE]
            ELSE SeedBody(cs, w, h, k - 1, loop[k - 1])
    IN  loop[w * h]

new(w, h) ==
    LET cs == SeedCells(w, h)
        r == SeedLoop(cs, w, h)
    IN  [width |-> w, height |-> h, cells |-> cs,
         changed_cells |-> r.changed_cells, panicked |-> r.panicked]

\* ------------------------------------------------------------ the program

\* The state after Universe::new(w, h), for any w, h in 0..MaxDim.
Init ==
    \E w \in 0..MaxDim, h \in 0..MaxDim :
        LET u == new(w, h)
        IN  /\ width = u.width
            /\ height = u.height
            /\ cells = u.cells
            /\ changed_cells = u.changed_cells
            /\ panicked = u.panicked
            /\ lastOp = "new"
            /\ prevCells = <<>>
            /\ prevChanged = <<>>
            /\ unread = 0
            /\ NoMain

\* Universe::update
Update ==
    /\ ~panicked
    /\ unread < MaxUnread
    /\ \E r \in {update(cells, width, height, changed_cells)} :
           /\ cells' = r.cells
           /\ changed_cells' = r.changed_cells
           /\ panicked' = r.panicked
    /\ lastOp' = "update"
    /\ prevCells' = cells
    /\ prevChanged' = changed_cells
    /\ unread' = unread + 1
    /\ UNCHANGED <<width, height>>
    /\ UNCHANGED mainVars

\* Universe::clear_changed_cells
ClearChangedCells ==
    /\ ~panicked
    /\ \E r \in {clear_changed_cells(cells, changed_cells)} :
           /\ cells' = r.cells
           /\ changed_cells' = r.changed_cells
    /\ lastOp' = "clear"
    /\ prevCells' = cells
    /\ prevChanged' = changed_cells
    /\ unread' = 0
    /\ UNCHANGED <<width, height, panicked>>
    /\ UNCHANGED mainVars

Next == Update \/ ClearChangedCells

Spec == Init /\ [][Next]_vars

\* ----------------------------------------------------------- test fixtures

\* The 3 x 3 box of rows 1..3 and columns 1..3: it holds the 2 x 2 block and
\* both phases of the blinker, and every cell around its centre (2, 2).
Box == (1..3) \X (1..3)

\* The w x h grid whose live cells are the (row, column) pairs of live.
GridOf(w, h, live) ==
    [p \in 1..(w * h) |->
        IF <<(p - 1) \div w, (p - 1) % w>> \in live THEN Alive ELSE Dead]

\* A Universe a test builds directly: any pattern of live cells inside the
\* box, on a grid of MinGrid..MaxGrid columns and rows, with an empty record.
InitGrid ==
    \E w \in MinGrid..MaxGrid, h \in MinGrid..MaxGrid :
        \E live \in SUBSET Box :
            /\ width = w
            /\ height = h
            /\ cells = GridOf(w, h, live)
            /\ changed_cells = <<>>
            /\ panicked = FALSE
            /\ lastOp = "fixture"
            /\ prevCells = <<>>
            /\ prevChanged = <<>>
            /\ unread = 0
            /\ NoMain

SpecGrid == InitGrid /\ [][Next]_vars

\* ------------------------------------------------------- timing_buffer.rs

\* add_time filling `0..self.size`: size copies on the first call.
add_time_full(tb, timing) ==
    IF tb.buffer = <<>>
    THEN [tb EXCEPT !.buffer = [i \in 1..tb.size |-> timing]]
    ELSE [tb EXCEPT !.buffer = Append(Tail(tb.buffer), timing)]

\* TimingBuffer::new: an empty Vec (with_capacity reserves, it adds nothing)
\* and the size.
TimingBuffer_new(size) == [buffer |-> <<>>, size |-> size]

\* TimingBuffer::add_time.  `for _i in 1..self.size` runs size - 1 times
\* (no time for size 0); remove(0) drops the oldest sample.
add_time(tb, timing) ==
    IF tb.buffer = <<>>
    THEN [tb EXCEPT !.buffer = [i \in 1..(tb.size - 1) |-> timing]]
    ELSE [tb EXCEPT !.buffer = Append(Tail(tb.buffer), timing)]

Samples == 1..MaxSample

\* No engine: the universe variables of a program that only keeps times.
NoEngine ==
    /\ width = 0
    /\ height = 0
    /\ cells = <<>>
    /\ changed_cells = <<>>
    /\ panicked = FALSE
    /\ prevCells = <<>>
    /\ prevChanged = <<>>
    /\ unread = 0
    /\ app = [width |-> 0, height |-> 0, cells |-> <<>>,
              changed_cells |-> <<>>, cell_width |-> 0, panicked |-> FALSE]
    /\ renders = 0

InitTiming ==
    /\ NoEngine
    /\ lastOp = "new"
    /\ \E size \in 0..MaxSize : fps = TimingBuffer_new(size)

AddTime ==
    /\ \E timing \in Samples : fps' = add_time(fps, timing)
    /\ lastOp' = "add_time"
    /\ UNCHANGED <<width, height, cells, changed_cells, panicked, prevCells,
                   prevChanged, unread, app, renders>>

SpecTiming == InitTiming /\ [][AddTime]_vars

\* ----------------------------------------------------------------- main.rs
\* The engine embedded in main.rs, translated from main.rs.  u is `self`, a
\* record of the fields width, height, cells, changed_cells and cell_width
\* (gl, glyph_cache, square and offset only reach the screen).  An f64 is
\* kept as its exact numerator over the denominator u.width: cell_width is
\* (window_size.width - 30.0) / width, so its numerator is
\* window_size.width - 30 and a coordinate col * cell_width has the numerator
\* col * (window_size.width - 30).

WINDOW_SIZE == [width |-> 1000, height |-> 1000]

main_get_index(u, row, column) == row * u.width + column

\* The index read for the i-th delta_row and the j-th delta_col (i, j in
\* 1..3), or -1 when `continue` skips the pair.
main_neighbor_idx(u, row, column, i, j) ==
    LET delta_row == <<u.height - 1, 0, 1>>[i]
        delta_col == <<u.width - 1, 0, 1>>[j]
    IN  IF delta_row = 0 /\ delta_col = 0
        THEN -1
        ELSE main_get_index(u, (row + delta_row) % u.height,
                            (column + delta_col) % u.width)

\* Universe::live_neighbor_count of main.rs; -1 stands for the panic of an
\* index out of range.
main_live_neighbor_count(u, row, column) ==
    LET idxs == [n \in 1..9 |->
                    main_neighbor_idx(u, row, column,
                                      ((n - 1) \div 3) + 1, ((n - 1) % 3) + 1)]
        count[n \in 0..9] ==
            IF n = 0 THEN 0
            ELSE IF idxs[n] = -1 THEN count[n - 1]
            ELSE count[n - 1] + u.cells[idxs[n] + 1]
    IN  IF \E n \in 1..9 : idxs[n] # -1 /\ ~InRange(u.cells, idxs[n])
        THEN -1
        ELSE count[9]

\* main_update_match pushing (row, col, cell) scaled, for (col, row, cell).
main_update_match_yx(u, row, col, cell, x) ==
    LET entry(c) == <<row * u.cell_width, col * u.cell_width, c>>
    IN  CASE cell = Alive /\ x < 2 -> [next_cell |-> Dead, push |-> <<entry(Dead)>>]
          [] cell = Alive /\ (x = 2 \/ x = 3) ->
                 [next_cell |-> Alive, push |-> <<entry(Alive)>>]
          [] cell = Alive /\ x > 3 -> [next_cell |-> Dead, push |-> <<entry(Dead)>>]
          [] cell = Dead /\ x = 3 -> [next_cell |-> Alive, push |-> <<entry(Alive)>>]
          [] OTHER -> [next_cell |-> cell, push |-> <<>>]

\* main_update_match whose arm of rule 4 is `(Cell::Dead, 2)`.
main_update_match_birth2(u, row, col, cell, x) ==
    LET entry(c) == <<col * u.cell_width, row * u.cell_width, c>>
    IN  CASE cell = Alive /\ x < 2 -> [next_cell |-> Dead, push |-> <<entry(Dead)>>]
          [] cell = Alive /\ (x = 2 \/ x = 3) ->
                 [next_cell |-> Alive, push |-> <<entry(Alive)>>]
          [] cell = Alive /\ x > 3 -> [next_cell |-> Dead, push |-> <<entry(Dead)>>]
          [] cell = Dead /\ x = 2 -> [next_cell |-> Alive, push |-> <<entry(Alive)>>]
          [] OTHER -> [next_cell |-> cell, push |-> <<>>]

\* The match of update in main.rs: next_cell and the entries the arm pushes,
\* (col as f64 * cell_width, row as f64 * cell_width, state).
main_update_match(u, row, col, cell, x) ==
    LET entry(c) == <<col * u.cell_width, row * u.cell_width, c>>
    IN  CASE cell = Alive /\ x < 2 -> [next_cell |-> Dead, push |-> <<entry(Dead)>>]
          [] cell = Alive /\ (x = 2 \/ x = 3) ->
                 [next_cell |-> Alive, push |-> <<entry(Alive)>>]
          [] cell = Alive /\ x > 3 -> [next_cell |-> Dead, push |-> <<entry(Dead)>>]
          [] cell = Dead /\ x = 3 -> [next_cell |-> Alive, push |-> <<entry(Alive)>>]
          [] OTHER -> [next_cell |-> cell, push |-> <<>>]

\* Universe::update of main.rs.  loop[k] is (next, self.changed_cells,
\* panicked) after k iterations of `for row { for col {`; self.cells is read
\* from u throughout and replaced by next at the end.
main_update(u) ==
    LET loop[k \in 0..(u.width * u.height)] ==
            IF k = 0
            THEN [next |-> u.cells, changed_cells |-> u.changed_cells,
                  panicked |-> FALSE]
            ELSE LET st == loop[k - 1]
                     row == (k - 1) \div u.width
                     col == (k - 1) % u.width
                     idx == main_get_index(u, row, col)
                     live_neighbors == main_live_neighbor_count(u, row, col)
                 IN  IF st.panicked \/ ~InRange(u.cells, idx)
                        \/ live_neighbors = -1
                     THEN [st EXCEPT !.panicked = TRUE]
                     ELSE LET m == main_update_match(u, row, col,
                                                     u.cells[idx + 1],
                                                     live_neighbors)
                          IN  [next |-> [st.next EXCEPT ![idx + 1] = m.next_cell],
                               changed_cells |-> st.changed_cells \o m.push,
                               panicked |-> FALSE]
        r == loop[u.width * u.height]
    IN  [u EXCEPT !.cells = IF r.panicked THEN u.cells ELSE r.next,
                  !.changed_cells = r.changed_cells,
                  !.panicked = r.panicked]

\* What render does to the Universe of main.rs: the record is drawn, then
\* self.changed_cells.clear().  (self.fps.add_time is in the action.)
main_render(u) == [u EXCEPT !.changed_cells = <<>>]

\* Universe::new of main.rs for a GRID_SIZE of grid_size.
main_new(grid_size, window_size) ==
    LET w == grid_size
        h == grid_size
        cs == [p \in 1..(w * h) |->
                  IF (p - 1) % 2 = 0 \/ (p - 1) % 7 = 0 THEN Alive ELSE Dead]
        cell_width == window_size.width - 30
        loop[k \in 0..(w * h)] ==
            IF k = 0 THEN <<>>
            ELSE LET row == (k - 1) \div w
                     col == (k - 1) % w
                     idx == row * w + col
                 IN  IF cs[idx + 1] = Alive
                     THEN Append(loop[k - 1],
                                 <<col * cell_width, row * cell_width, Alive>>)
                     ELSE loop[k - 1]
    IN  [width |-> w, height |-> h, cells |-> cs, changed_cells |-> loop[w * h],
         cell_width |-> cell_width, panicked |-> FALSE]

\* The windowed program next to the library engine: main.rs started with a
\* GRID_SIZE of 1..MaxGridSize (256 in the source) and Universe::new(GRID_SIZE,
\* GRID_SIZE) of game_of_life.rs.
InitMain ==
    \E grid_size \in 1..MaxGridSize :
        LET e == new(grid_size, grid_size)
        IN  /\ width = e.width
            /\ height = e.height
            /\ cells = e.cells
            /\ changed_cells = e.changed_cells
            /\ panicked = e.panicked
            /\ lastOp = "new"
            /\ prevCells = <<>>
            /\ prevChanged = <<>>
            /\ unread = 0
            /\ app = main_new(grid_size, WINDOW_SIZE)
            /\ fps = TimingBuffer_new(100)
            /\ renders = 0

\* An update event: app.update, and update on the library engine.
UpdateBoth ==
    /\ ~panicked
    /\ ~app.panicked
    /\ unread < MaxUnread
    /\ \E r \in {update(cells, width, height, changed_cells)} :
           /\ cells' = r.cells
           /\ changed_cells' = r.changed_cells
           /\ panicked' = r.panicked
    /\ app' = main_update(app)
    /\ lastOp' = "update"
    /\ prevCells' = cells
    /\ prevChanged' = changed_cells
    /\ unread' = unread + 1
    /\ UNCHANGED <<width, height, fps, renders>>

\* A render event: app.render, and clear_changed_cells on the library
\* engine (lastOp names the engine's call).
RenderBoth ==
    /\ ~panicked
    /\ ~app.panicked
    /\ renders < MaxRenders
    /\ \E ext_dt \in Samples : fps' = add_time(fps, ext_dt)
    /\ app' = main_render(app)
    /\ \E r \in {clear_changed_cells(cells, changed_cells)} :
           /\ cells' = r.cells
           /\ changed_cells' = r.changed_cells
    /\ lastOp' = "clear"
    /\ prevCells' = cells
    /\ prevChanged' = changed_cells
    /\ unread' = 0
    /\ renders' = renders + 1
    /\ UNCHANGED <<width, height, panicked>>

NextMain == UpdateBoth \/ RenderBoth

SpecMain == InitMain /\ [][NextMain]_vars

\* ------------------------------------------------- vocabulary of the claims

\* The (row, column) positions of the grid.
Positions == (0..(height - 1)) \X (0..(width - 1))

\* The state of the cell at position p = <<row, column>> of generation cs.
At(cs, p) == cs[p[1] * width + p[2] + 1]

\* The (column, row) pairs of the entries of a record.
PairsOf(rec) == {<<rec[i][1], rec[i][2]>> : i \in 1..Len(rec)}

\* What the last call appended to the record.
Appended == SubSeq(changed_cells, Len(prevChanged) + 1, Len(changed_cells))

\* The (column, row) pairs of the cells the last update changed, and of the
\* live cells it left alive.
ChangedPairs ==
    {<<p[2], p[1]>> : p \in {q \in Positions : At(cells, q) # At(prevCells, q)}}

SurvivorPairs ==
    {<<p[2], p[1]>> :
        p \in {q \in Positions : At(prevCells, q) = Alive /\ At(cells, q) = Alive}}

\* The last call was an update that completed.
Stepped == lastOp = "update" /\ ~panicked

\* ------------------------------------------------------------------ C1

RuleTable(state, n) ==
    IF state = Alive
    THEN IF n < 2 THEN Dead ELSE IF n <= 3 THEN Alive ELSE Dead
    ELSE IF n = 3 THEN Alive ELSE state

\* C3: after an update every cell holds what the rule table gives for its
\* state and its count of live neighbours in the generation before.
C3_RuleTable ==
    Stepped =>
        \A p \in Positions :
            At(cells, p) =
                RuleTable(At(prevCells, p),
                          live_neighbor_count(prevCells, width, height,
                                              p[1], p[2]))

\* The live neighbours of position p in the generation before.
PrevCount(p) == live_neighbor_count(prevCells, width, height, p[1], p[2])

\* An update in which one cell died of underpopulation, one survived, one
\* died of overpopulation, one was born, and dead cells with two and with
\* four live neighbours stayed dead.
C3_Witness ==
    /\ Stepped
    /\ \E p \in Positions : At(prevCells, p) = Alive /\ PrevCount(p) = 1
    /\ \E p \in Positions : At(prevCells, p) = Alive /\ PrevCount(p) \in {2, 3}
    /\ \E p \in Positions : At(prevCells, p) = Alive /\ PrevCount(p) = 4
    /\ \E p \in Positions : At(prevCells, p) = Dead /\ PrevCount(p) = 3
    /\ \E p \in Positions : At(prevCells, p) = Dead /\ PrevCount(p) = 2
    /\ \E p \in Positions : At(prevCells, p) = Dead /\ PrevCount(p) = 4

\* ------------------------------------------------------------------ C4

\* The cell at offset (dr, dc) of (row, column), wrapped on the torus.
OffsetCell(cs, row, column, dr, dc) ==
    cs[((row + dr) % height) * width + ((column + dc) % width) + 1]

\* The live cells over the eight offsets, once per offset.
OffsetCount(cs, row, column) ==
    OffsetCell(cs, row, column, -1, -1) + OffsetCell(cs, row, column, -1, 0)
    + OffsetCell(cs, row, column, -1, 1) + OffsetCell(cs, row, column, 0, -1)
    + OffsetCell(cs, row, column, 0, 1) + OffsetCell(cs, row, column, 1, -1)
    + OffsetCell(cs, row, column, 1, 0) + OffsetCell(cs, row, column, 1, 1)

\* C4: for every width >= 1 and height >= 1, live_neighbor_count is the sum
\* of the live cells over the eight wrapped offsets, and lies in 0..8.
C4_EightWrappedOffsets ==
    (width >= 1 /\ height >= 1 /\ ~panicked) =>
        \A p \in Positions :
            /\ live_neighbor_count(cells, width, height, p[1], p[2])
                   = OffsetCount(cells, p[1], p[2])
            /\ live_neighbor_count(cells, width, height, p[1], p[2]) \in 0..8

\* ------------------------------------------------------------------ C5

\* C5: the cell sequence always has width * height cells, and no call
\* changes width or height.
C5_SizeInvariant ==
    /\ [](Len(cells) = width * height)
    /\ [][width' = width /\ height' = height]_vars

\* A grid of several cells after an update, and after a clear.
C5_Witness ==
    /\ lastOp = "clear"
    /\ unread = 0
    /\ Len(cells) > 1
    /\ Len(prevCells) = Len(cells)
    /\ cells # SeedCells(width, height)

\* ------------------------------------------------------------------ C6

\* The linear index of the cell an entry names.
EntryIndex(e) == e[2] * width + e[1]

\* C6: right after new, cell i is Alive iff 2 or 7 divides i, and the record
\* lists the live cells, each once as (column, row, Alive), in row-major
\* order, and no dead cell.
C6_Seed ==
    lastOp = "new" =>
        /\ \A i \in 0..(width * height - 1) :
               (cells[i + 1] = Alive) <=> (i % 2 = 0 \/ i % 7 = 0)
        /\ \A i \in 0..(width * height - 1) :
               (cells[i + 1] = Dead) <=> ~(i % 2 = 0 \/ i % 7 = 0)
        /\ \A k \in 1..Len(changed_cells) :
               /\ changed_cells[k][1] \in 0..(width - 1)
               /\ changed_cells[k][2] \in 0..(height - 1)
               /\ changed_cells[k][3] = Alive
               /\ cells[EntryIndex(changed_cells[k]) + 1] = Alive
        /\ \A k \in 1..(Len(changed_cells) - 1) :
               EntryIndex(changed_cells[k]) < EntryIndex(changed_cells[k + 1])
        /\ \A i \in 0..(width * height - 1) :
               cells[i + 1] = Alive =>
                   \E k \in 1..Len(changed_cells) :
                       EntryIndex(changed_cells[k]) = i

\* A new grid whose cell 7 is alive by the rule of 7 alone, with a dead
\* cell and more than one row.
C6_Witness ==
    /\ lastOp = "new"
    /\ height > 1
    /\ Len(cells) >= 8
    /\ cells[8] = Alive
    /\ cells[2] = Dead
    /\ Len(changed_cells) > 1

\* ------------------------------------------------------------- C7, C8, C9

\* The 2 x 2 block on the 4 x 4 grid.
Block == GridOf(4, 4, {<<1, 1>>, <<1, 2>>, <<2, 1>>, <<2, 2>>})

\* The blinker on the 5 x 5 grid, (row, column): horizontal and vertical.
BlinkerH == GridOf(5, 5, {<<2, 1>>, <<2, 2>>, <<2, 3>>})
BlinkerV == GridOf(5, 5, {<<1, 2>>, <<2, 2>>, <<3, 2>>})

\* One update of the block, taken with an empty record.
BlockStepped ==
    /\ Stepped
    /\ width = 4
    /\ height = 4
    /\ prevCells = Block
    /\ prevChanged = <<>>

Stepped5x5 == Stepped /\ width = 5 /\ height = 5

\* C8: an update turns the horizontal blinker into the vertical one and the
\* vertical one into the horizontal one: period 2.
C8_BlinkerPeriod2 ==
    Stepped5x5 =>
        /\ prevCells = BlinkerH => cells = BlinkerV
        /\ prevCells = BlinkerV => cells = BlinkerH

\* The second of two updates in a row, which brought the horizontal blinker
\* back.
C8_Witness ==
    /\ Stepped5x5
    /\ unread = 2
    /\ prevCells = BlinkerV
    /\ cells = BlinkerH

\* C9 as stated: on an empty record, an update of the blinker lists exactly
\* the six cells that flipped, three dying and three born.
C9_SixFlipped ==
    (Stepped5x5 /\ prevChanged = <<>> /\ prevCells \in {BlinkerH, BlinkerV}) =>
        /\ Len(changed_cells) = 6
        /\ PairsOf(changed_cells) = ChangedPairs
        /\ Cardinality({i \in 1..Len(changed_cells) :
                           changed_cells[i][3] = Dead}) = 3
        /\ Cardinality({i \in 1..Len(changed_cells) :
                           changed_cells[i][3] = Alive}) = 3

\* C9 as amended: on an empty record, an update of the blinker lists five
\* cells in row-major order: the two that die, the two that are born and the
\* surviving centre (2, 2) as Alive; the next update lists the four that
\* flip back and the centre again.
C9_FourFlippedAndCentre ==
    (Stepped5x5 /\ prevChanged = <<>>) =>
        /\ prevCells = BlinkerH =>
               changed_cells = << <<2, 1, Alive>>, <<1, 2, Dead>>,
                                  <<2, 2, Alive>>, <<3, 2, Dead>>,
                                  <<2, 3, Alive>> >>
        /\ prevCells = BlinkerV =>
               changed_cells = << <<2, 1, Dead>>, <<1, 2, Alive>>,
                                  <<2, 2, Alive>>, <<3, 2, Alive>>,
                                  <<2, 3, Dead>> >>

\* The update that flips the vertical blinker back, taken on a record that
\* was cleared after the first update.
C9_Witness ==
    /\ Stepped5x5
    /\ unread = 1
    /\ prevChanged = <<>>
    /\ prevCells = BlinkerV
    /\ cells = BlinkerH
    /\ Len(changed_cells) = 5

\* ------------------------------------------------------------------ C10

\* C10: a grid with width 0 or height 0 is rejected: no Universe with a zero
\* dimension is ever in use without the violation having been reported.
C10_ZeroDimensionRejected ==
    (width = 0 \/ height = 0) => panicked

\* ------------------------------------------------------------------ C11

\* Every index the next update reads or writes: each cell's own and those of
\* its wrapped neighbours.
UpdateIndices ==
    {get_index(width, p[1], p[2]) : p \in Positions}
    \cup ({NeighborIndex(width, height, p[1], p[2], k) :
              p \in Positions, k \in 0..8} \ {-1})

\* C11: on a grid with width >= 1 and height >= 1 no update has panicked,
\* every index the next update uses lies in 0..width * height - 1, and the
\* next update completes. A panic is all that stops update from being called
\* again, so no state is terminal.
C11_StepTotal ==
    (width >= 1 /\ height >= 1) =>
        /\ ~panicked
        /\ \A i \in UpdateIndices : i >= 0 /\ i < width * height
        /\ ~update(cells, width, height, changed_cells).panicked

\* A grid of unequal sides, with a live cell, after two updates in a row.
C11_Witness ==
    /\ Stepped
    /\ unread = 2
    /\ width >= 2
    /\ height >= 2
    /\ width # height
    /\ \E p \in Positions : At(cells, p) = Alive

\* ---------------------------------------------------------------- C13
\* C13: clear_changed_cells is total and idempotent.  It can be called in
\* every state of a running program; the state it leaves has no error and
\* an empty record; called on a record that is already empty it changes
\* nothing, and calling it once more on the state it left yields that same
\* state.
C13_ClearIdempotentTotal ==
    /\ ~panicked => ENABLED ClearChangedCells
    /\ lastOp = "clear" =>
           /\ ~panicked
           /\ changed_cells = <<>>
           /\ clear_changed_cells(cells, changed_cells)
                  = [cells |-> cells, changed_cells |-> changed_cells]
    /\ (lastOp = "clear" /\ prevChanged = <<>>) =>
           /\ cells = prevCells
           /\ changed_cells = prevChanged

\* A second clear in a row, on a grid with live cells.
C13_Witness ==
    /\ lastOp = "clear"
    /\ prevChanged = <<>>
    /\ \E p \in Positions : At(cells, p) = Alive

\* ------------------------------------------------------------------ C14

\* C14: the entries one update appends name cells of the grid (column below
\* width, row below height), are in row-major order with at most one entry
\* per cell, and each carries the state its cell has after the update.
C14_RowMajorEntries ==
    Stepped =>
        /\ \A k \in 1..Len(Appended) :
               /\ Appended[k][1] >= 0 /\ Appended[k][1] < width
               /\ Appended[k][2] >= 0 /\ Appended[k][2] < height
               /\ Appended[k][3] = cells[EntryIndex(Appended[k]) + 1]
        /\ \A k \in 1..(Len(Appended) - 1) :
               \/ Appended[k][2] < Appended[k + 1][2]
               \/ /\ Appended[k][2] = Appended[k + 1][2]
                  /\ Appended[k][1] < Appended[k + 1][1]

\* An update of a grid of unequal sides that appended, behind older entries,
\* entries in two rows and two columns, for a dying cell and for a live one.
C14_Witness ==
    /\ Stepped
    /\ width # height
    /\ prevChanged # <<>>
    /\ \E j, k \in 1..Len(Appended) :
           /\ Appended[j][1] # Appended[k][1]
           /\ Appended[j][2] # Appended[k][2]
           /\ Appended[j][3] = Dead
           /\ Appended[k][3] = Alive

\* ------------------------------------------------------------------ C15
\* C15: resetting the record changes nothing else.  A clear, whether
\* clear_changed_cells or the clear at the end of render, leaves cells,
\* width and height (and cell_width) as they were; and the generation an
\* update produces is the one it would produce from an emptied record, so
\* the generations do not depend on whether or when the record is cleared.
C15_ClearChangesNothingElse ==
    [][/\ lastOp' = "clear" =>
              /\ cells' = cells
              /\ width' = width
              /\ height' = height
              /\ panicked' = panicked
              /\ app'.cells = app.cells
              /\ app'.width = app.width
              /\ app'.height = app.height
              /\ app'.cell_width = app.cell_width
              /\ app'.panicked = app.panicked
       /\ lastOp' = "update" =>
              /\ cells' = update(cells, width, height, <<>>).cells
              /\ app'.cells
                     = main_update([app EXCEPT !.changed_cells = <<>>]).cells
              /\ width' = width
              /\ height' = height]_vars

\* The second render has just emptied a record that held entries, on a grid
\* with live cells that an update had changed since the first render.
C15_Witness ==
    /\ lastOp = "clear"
    /\ renders = 2
    /\ prevChanged # <<>>
    /\ app.changed_cells = <<>>
    /\ \E p \in Positions : At(cells, p) = Alive
    /\ \E p \in 1..Len(app.cells) : app.cells[p] = Dead

\* ------------------------------------------------------------------ C16

\* The entries of a record that name the cell of linear index i.
EntriesFor(rec, i) == {k \in 1..Len(rec) : EntryIndex(rec[k]) = i}

\* The canvas a render draws: all Dead, then the entries of the record drawn
\* in order, a later entry over an earlier one.
Replay(rec) ==
    [p \in 1..(width * height) |->
        IF EntriesFor(rec, p - 1) = {}
        THEN Dead
        ELSE rec[CHOOSE k \in EntriesFor(rec, p - 1) :
                     \A j \in EntriesFor(rec, p - 1) : j <= k][3]]

\* The cell an entry of the record of main.rs is drawn on: its coordinates
\* are the column and the row scaled by cell_width.
MainEntryIndex(e) ==
    (e[2] \div app.cell_width) * app.width + (e[1] \div app.cell_width)

MainEntriesFor(rec, i) == {k \in 1..Len(rec) : MainEntryIndex(rec[k]) = i}

\* The canvas render draws from the record of main.rs: clear(BG_COLOR), then
\* one square per entry, in order.
MainReplay(rec) ==
    [p \in 1..(app.width * app.height) |->
        IF MainEntriesFor(rec, p - 1) = {}
        THEN Dead
        ELSE rec[CHOOSE k \in MainEntriesFor(rec, p - 1) :
                     \A j \in MainEntriesFor(rec, p - 1) : j <= k][3]]

\* C16: unless the last call was a clear, the record replayed on an all-Dead
\* canvas is the current grid; right after a clear it is the empty canvas.
\* This holds of the record of game_of_life.rs and of the record render
\* draws in main.rs.
C16_DrawList ==
    /\ lastOp # "clear" =>
           /\ Replay(changed_cells) = cells
           /\ MainReplay(app.changed_cells) = app.cells
    /\ lastOp = "clear" =>
           /\ Replay(changed_cells) = [p \in 1..(width * height) |-> Dead]
           /\ MainReplay(app.changed_cells)
                  = [p \in 1..(app.width * app.height) |-> Dead]

\* Two updates with no clear between them, the second drawing a cell Dead
\* over its earlier Alive entry, on a grid that still has live cells.
C16_Witness ==
    /\ Stepped
    /\ unread = 2
    /\ \E p \in Positions : At(cells, p) = Alive
    /\ \E j, k \in 1..Len(changed_cells) :
           /\ j < k
           /\ EntryIndex(changed_cells[j]) = EntryIndex(changed_cells[k])
           /\ changed_cells[j][3] = Alive
           /\ changed_cells[k][3] = Dead
    /\ \E j, k \in 1..Len(app.changed_cells) :
           /\ j < k
           /\ MainEntryIndex(app.changed_cells[j])
                  = MainEntryIndex(app.changed_cells[k])
           /\ app.changed_cells[j][3] = Alive
           /\ app.changed_cells[k][3] = Dead

\* ---------------------------------------------------------------- C17
\* C17: the window of a TimingBuffer.  The buffer never holds more than
\* size samples, and none at all when size <= 1.  An add_time on an empty
\* buffer leaves size - 1 copies of the sample (none for size 0), not size;
\* an add_time on a non-empty buffer drops the oldest sample and appends
\* the new one, the length staying size - 1.  size never changes.
C17_TimingWindow ==
    /\ [](/\ Len(fps.buffer) <= fps.size
          /\ fps.size <= 1 => fps.buffer = <<>>)
    /\ [][lastOp' = "add_time" =>
             \E timing \in Samples :
                 /\ fps'.size = fps.size
                 /\ IF fps.buffer = <<>>
                    THEN /\ Len(fps'.buffer)
                              = (IF fps.size = 0 THEN 0 ELSE fps.size - 1)
                         /\ \A i \in 1..Len(fps'.buffer) :
                                fps'.buffer[i] = timing
                    ELSE /\ Len(fps'.buffer) = fps.size - 1
                         /\ Len(fps'.buffer) = Len(fps.buffer)
                         /\ fps'.buffer[Len(fps'.buffer)] = timing
                         /\ \A i \in 1..(Len(fps.buffer) - 1) :
                                fps'.buffer[i] = fps.buffer[i + 1]]_vars

\* A window of size - 1 >= 3 samples that has slid: three different times.
C17_Witness ==
    /\ lastOp = "add_time"
    /\ fps.size >= 4
    /\ Len(fps.buffer) = fps.size - 1
    /\ fps.buffer[1] # fps.buffer[2]
    /\ fps.buffer[2] # fps.buffer[3]
    /\ fps.buffer[1] # fps.buffer[3]

\* ---------------------------------------------------------------- C18
\* C18: the engine of game_of_life.rs and the engine embedded in main.rs,
\* started with the same width and height and driven by the same updates
\* and clears, agree: same width and height, the same cells, and records of
\* the same length whose k-th entries name the same cell (the coordinates of
\* main.rs are the column and the row scaled by cell_width) with the same
\* state; and one fails exactly when the other does.
C18_EnginesAgree ==
    /\ app.width = width
    /\ app.height = height
    /\ app.cells = cells
    /\ app.panicked = panicked
    /\ Len(app.changed_cells) = Len(changed_cells)
    /\ \A k \in 1..Len(changed_cells) :
           /\ app.changed_cells[k][1] = changed_cells[k][1] * app.cell_width
           /\ app.changed_cells[k][2] = changed_cells[k][2] * app.cell_width
           /\ app.changed_cells[k][3] = changed_cells[k][3]

\* Both engines have rendered once and updated twice since, on a grid with
\* a live cell, a birth and a death in the record.
C18_Witness ==
    /\ renders >= 1
    /\ unread = 2
    /\ lastOp = "update"
    /\ width >= 3
    /\ \E p \in 1..Len(app.cells) : app.cells[p] = Alive
    /\ \E j, k \in 1..Len(app.changed_cells) :
           /\ app.changed_cells[j][3] = Dead
           /\ app.changed_cells[k][3] = Alive
           /\ app.changed_cells[j][1] # app.changed_cells[k][2]

====
